---- MODULE Spec2Model ----
\* A model of lastfm_recommender.py: one run of main() -- the credential check,
\* the paginated fetch (get_recent_tracks), the normalisation of raw records
\* (process_scrobbles), the aggregation, scoring and sorting (calculate_scores)
\* and the ranked listing main prints.
\*
\* Numbers.  Weights and raw scores are counted in thousandths, so the default
\* weights 1.0 / 1.5 / 0.5 / 0.3 are 1000 / 1500 / 500 / 300; a stored score
\* (after round(score, 2)) is counted in hundredths.  Every weight used here
\* has at most two decimals, so round(score, 2) never meets a decimal tie.
EXTENDS Integers, Sequences, FiniteSets

VARIABLES
    api_key_set,      \* LASTFM_API_KEY is set and non-empty (line 43)
    username_set,     \* LASTFM_USERNAME is set and non-empty (line 44)
    num_suggestions,  \* the module constant NUM_SUGGESTIONS of this run (line 50)
    weights,          \* the weight configuration handed to calculate_scores
    pc,               \* where main is: start, fetch, process, score, output, done
    page,             \* get_recent_tracks: page (line 63)
    total_pages,      \* get_recent_tracks: total_pages (line 64)
    all_tracks,       \* get_recent_tracks: all_tracks, then main's raw_tracks
    listens,          \* main: listens (line 208)
    ranked_songs,     \* main: ranked_songs (line 212)
    output,           \* the lines printed so far
    requested,        \* history: the page numbers requested, in order
    bodies,           \* history: the track list of every successful response
    reported_total,   \* history: totalPages as the page-1 response carried it
    failure,          \* history: "none", or what ended the run with an error
    calls             \* history: the pipeline functions main has called

vars == <<api_key_set, username_set, num_suggestions, weights, pc, page,
          total_pages, all_tracks, listens, ranked_songs, output, requested,
          bodies, reported_total, failure, calls>>

-----------------------------------------------------------------------------
\* Bounds of the model.

MaxPages == 2      \* largest totalPages a page-1 response reports
MaxPerPage == 1    \* largest number of track entries in one response
MaxN == 2          \* NUM_SUGGESTIONS ranges over 0..MaxN and the shipped 25
MaxRaw == 2        \* longest raw record list handed to process_scrobbles alone
MaxListens == 3    \* longest listen list handed to calculate_scores alone

-----------------------------------------------------------------------------
\* Program constants.

NUM_SUGGESTIONS == 25

WEIGHTS ==
    [FREQUENCY |-> 1000, CONSISTENCY |-> 1500,
     ARTIST_AFFINITY |-> 500, ALBUM_AFFINITY |-> 300]

\* datetime.fromtimestamp(...).strftime("%Y-%m-%d"): the local calendar day of
\* an epoch second.  The day is kept as a day number; the local zone is fixed
\* for the process, one hour east of UTC here.
SecondsPerDay == 86400
UtcOffset == 3600

DayOf(uts) == (uts + UtcOffset) \div SecondsPerDay

-----------------------------------------------------------------------------
\* General helpers.

Min(a, b) == IF a <= b THEN a ELSE b

\* All sequences over S of length at most n.
BoundedSeq(S, n) == UNION {[1..k -> S] : k \in 0..n}

RECURSIVE Flatten(_)
Flatten(ss) == IF ss = <<>> THEN <<>> ELSE Head(ss) \o Flatten(Tail(ss))

\* Python's seq[:n] for n >= 0.
Take_OneMore(seq, n) == SubSeq(seq, 1, Min(n + 1, Len(seq)))

Take(seq, n) == SubSeq(seq, 1, Min(n, Len(seq)))

-----------------------------------------------------------------------------
\* Raw track records, as the API delivers them.  keys is the set of top-level
\* keys the record has ("date" stands for date.uts, "artist" for
\* artist.#text, "album" for album.#text); uts_numeric says whether int()
\* accepts the uts string.

Raw(keys, np, name, artist, album, numeric, uts) ==
    [keys |-> keys, nowplaying |-> np, name |-> name, artist |-> artist,
     album |-> album, uts_numeric |-> numeric, uts |-> uts]

FullKeys == {"name", "artist", "album", "date"}

\* What one pass of the loop body of process_scrobbles does with a record:
\* "skip" (continue), "raise" (ValueError leaves the function) or "append".
TrackStep(track) ==
    IF "@attr" \in track.keys /\ track.nowplaying = "true" THEN "skip"
    ELSE IF "name" \notin track.keys THEN "skip"        \* KeyError, line 118
    ELSE IF "artist" \notin track.keys THEN "skip"      \* KeyError, line 119
    ELSE IF "album" \notin track.keys THEN "skip"       \* KeyError, line 120
    ELSE IF "date" \notin track.keys THEN "skip"        \* KeyError, line 122
    ELSE IF ~track.uts_numeric THEN "raise"             \* ValueError, line 122
    ELSE IF track.name # "" /\ track.artist # "" /\ track.album # ""
         THEN "append"
    ELSE "skip"

ListenOf(track) ==
    [song |-> track.name, artist |-> track.artist, album |-> track.album,
     day |-> DayOf(track.uts)]

\* process_scrobbles(tracks): the listens appended so far and whether a
\* ValueError ended the loop.
RECURSIVE ProcessFrom(_, _)
ProcessFrom(tracks, acc) ==
    IF tracks = <<>> THEN [raised |-> FALSE, listens |-> acc]
    ELSE LET step == TrackStep(Head(tracks)) IN
         IF step = "raise" THEN [raised |-> TRUE, listens |-> acc]
         ELSE IF step = "append"
              THEN ProcessFrom(Tail(tracks), Append(acc, ListenOf(Head(tracks))))
         ELSE ProcessFrom(Tail(tracks), acc)

process_scrobbles(tracks) == ProcessFrom(tracks, <<>>)

-----------------------------------------------------------------------------
\* calculate_scores(listens, weights).

SongKey(l) == <<l.artist, l.song>>

AlbumKey(l) == <<l.artist, l.album>>

\* The keys of the dict song_play_counts in insertion order: a key is inserted
\* by the first listen that carries it (lines 149-153).
RECURSIVE SongKeysFrom(_, _)
SongKeysFrom(ls, acc) ==
    IF ls = <<>> THEN acc
    ELSE LET k == SongKey(Head(ls)) IN
         IF \E i \in 1..Len(acc) : acc[i] = k
         THEN SongKeysFrom(Tail(ls), acc)
         ELSE SongKeysFrom(Tail(ls), Append(acc, k))

song_keys_EveryListen(ls) == [i \in 1..Len(ls) |-> SongKey(ls[i])]

song_keys(ls) == SongKeysFrom(ls, <<>>)

\* song_play_counts[song_key] after the aggregation loop (line 153).
RECURSIVE song_play_counts(_, _)
song_play_counts(ls, song_key) ==
    IF ls = <<>> THEN 0
    ELSE song_play_counts(Tail(ls), song_key)
         + (IF SongKey(Head(ls)) = song_key THEN 1 ELSE 0)

\* song_play_days[song_key] after the aggregation loop (line 154).
RECURSIVE song_play_days(_, _)
song_play_days(ls, song_key) ==
    IF ls = <<>> THEN {}
    ELSE song_play_days(Tail(ls), song_key)
         \cup (IF SongKey(Head(ls)) = song_key THEN {Head(ls).day} ELSE {})

\* artist_total_plays[artist] after the aggregation loop (line 155).
RECURSIVE artist_total_plays(_, _)
artist_total_plays(ls, artist) ==
    IF ls = <<>> THEN 0
    ELSE artist_total_plays(Tail(ls), artist)
         + (IF Head(ls).artist = artist THEN 1 ELSE 0)

\* album_total_plays.get(album_key, 0) after the aggregation loop (lines 156, 171).
RECURSIVE album_total_plays(_, _)
album_total_plays(ls, album_key) ==
    IF ls = <<>> THEN 0
    ELSE album_total_plays(Tail(ls), album_key)
         + (IF AlbumKey(Head(ls)) = album_key THEN 1 ELSE 0)

\* next((l["album"] for l in listens if (l["artist"], l["song"]) == song_key), None):
\* the album of the first listen of the track, in list order (lines 163-166).
NoAlbum == "<None>"

RECURSIVE first_album(_, _)
first_album(ls, song_key) ==
    IF ls = <<>> THEN NoAlbum
    ELSE IF SongKey(Head(ls)) = song_key THEN Head(ls).album
    ELSE first_album(Tail(ls), song_key)

\* round(score, 2): thousandths to the nearest hundredth, ties to even.
Round2(x) ==
    LET q == x \div 10
        r == x % 10
    IN  IF r < 5 THEN q
        ELSE IF r > 5 THEN q + 1
        ELSE IF q % 2 = 0 THEN q ELSE q + 1

\* The artist affinity of a track: the plays of its artist over all tracks.
artist_affinity_OwnTrackOnly(ls, song_key) == song_play_counts(ls, song_key)

artist_affinity(ls, song_key) == artist_total_plays(ls, song_key[1])

\* One pass of the scoring loop (lines 159-180).
ScoreEntry(ls, w, song_key) ==
    LET frequency == song_play_counts(ls, song_key)
        album_key == <<song_key[1], first_album(ls, song_key)>>
        consistency == Cardinality(song_play_days(ls, song_key))
        album_affinity == album_total_plays(ls, album_key)
        score == frequency * w.FREQUENCY
                 + consistency * w.CONSISTENCY
                 + artist_affinity(ls, song_key) * w.ARTIST_AFFINITY
                 + album_affinity * w.ALBUM_AFFINITY
    IN  [artist |-> song_key[1], song |-> song_key[2], score |-> Round2(score)]

song_scores(ls, w) ==
    LET keys == song_keys(ls)
    IN  [i \in 1..Len(keys) |-> ScoreEntry(ls, w, keys[i])]

\* sorted(song_scores, key=score, reverse=True): a stable sort, so an entry
\* goes behind every entry already placed whose score is at least its own.
InsertByScore_BeforeEquals(sorted, e) ==
    LET k == Cardinality({i \in 1..Len(sorted) : sorted[i].score > e.score})
    IN  SubSeq(sorted, 1, k) \o <<e>> \o SubSeq(sorted, k + 1, Len(sorted))

InsertByScore(sorted, e) ==
    LET k == Cardinality({i \in 1..Len(sorted) : sorted[i].score >= e.score})
    IN  SubSeq(sorted, 1, k) \o <<e>> \o SubSeq(sorted, k + 1, Len(sorted))

RECURSIVE SortFrom(_, _)
SortFrom(rest, sorted) ==
    IF rest = <<>> THEN sorted
    ELSE SortFrom(Tail(rest), InsertByScore(sorted, Head(rest)))

sorted_by_score_desc(scores) == SortFrom(scores, <<>>)

calculate_scores(ls, w) == sorted_by_score_desc(song_scores(ls, w))

-----------------------------------------------------------------------------
\* The inputs the model draws from.

GoodRecord(name, artist, album, uts) ==
    Raw(FullKeys, "", name, artist, album, TRUE, uts)

\* Track entries the API serves in a run of main: completed listens of three
\* tracks, an entry still playing (no date), an entry without album and an
\* entry whose uts string is not a number.
ApiRecords ==
    { GoodRecord("S1", "A1", "B1", 1000),
      GoodRecord("S2", "A1", "B2", 85000),
      GoodRecord("S1", "A2", "B1", 1000),
      Raw({"@attr", "name", "artist", "album"}, "true", "S1", "A1", "B1", FALSE, 0),
      Raw(FullKeys \ {"album"}, "", "S1", "A1", "", TRUE, 1000),
      Raw(FullKeys, "", "S1", "A1", "B1", FALSE, 0) }

\* Raw records handed to process_scrobbles alone: complete ones, and ones with
\* a key missing, a value empty, or a uts string that is not a number.
RawRecords ==
    { GoodRecord("S1", "A1", "B1", 1000),
      GoodRecord("S1", "A1", "B1", 80000),
      GoodRecord("S2", "A2", "B2", 85000),
      Raw(FullKeys \cup {"@attr"}, "false", "S2", "A1", "B1", TRUE, 1000),
      Raw(FullKeys \cup {"@attr"}, "true", "S1", "A1", "B1", TRUE, 1000),
      Raw({"@attr", "name", "artist", "album"}, "true", "S1", "A1", "B1", FALSE, 0),
      Raw(FullKeys \ {"name"}, "", "", "A1", "B1", TRUE, 1000),
      Raw(FullKeys \ {"artist"}, "", "S1", "", "B1", TRUE, 1000),
      Raw(FullKeys \ {"album"}, "", "S1", "A1", "", TRUE, 1000),
      Raw(FullKeys \ {"date"}, "", "S1", "A1", "B1", FALSE, 0),
      Raw(FullKeys, "", "", "A1", "B1", TRUE, 1000),
      Raw(FullKeys, "", "S1", "", "B1", TRUE, 1000),
      Raw(FullKeys, "", "S1", "A1", "", TRUE, 1000),
      Raw(FullKeys, "", "S1", "A1", "B1", FALSE, 0),
      Raw(FullKeys \ {"album"}, "", "S1", "A1", "", FALSE, 0),
      Raw(FullKeys, "", "S1", "A1", "", FALSE, 0) }

Listen(artist, song, album, day) ==
    [song |-> song, artist |-> artist, album |-> album, day |-> day]

\* Listens handed to calculate_scores alone: two tracks of artist A1 on two
\* albums and two days, and one track of artist A2.
ListenSamples ==
    { Listen("A1", s, b, d) : s \in {"S1", "S2"}, b \in {"B1", "B2"}, d \in {0, 1} }
    \cup { Listen("A2", "S1", "B1", 0) }

Weights(f, c, a, b) ==
    [FREQUENCY |-> f, CONSISTENCY |-> c, ARTIST_AFFINITY |-> a, ALBUM_AFFINITY |-> b]

WeightConfigs ==
    { WEIGHTS, Weights(1000, 0, 0, 0), Weights(20, 0, 10, 70) }

FailureKinds == {"transport", "http_status", "api_error"}

-----------------------------------------------------------------------------
\* Printed lines.

Line(kind) == [kind |-> kind, rank |-> 0, song |-> "", artist |-> "", score |-> 0]

EntryLine(i, item) ==
    [kind |-> "entry", rank |-> i, song |-> item.song, artist |-> item.artist,
     score |-> item.score]

\* enumerate(ranked_songs[:NUM_SUGGESTIONS], 1), one line each (lines 220-223).
Entries(ranked, n) ==
    LET top == Take(ranked, n)
    IN  [i \in 1..Len(top) |-> EntryLine(i, top[i])]

\* Phase 4 of main after the header line (lines 216-223).
Listing_NoEmptyCheck(ranked, n) == Entries(ranked, n)

Listing(ranked, n) ==
    IF ranked = <<>> THEN <<Line("no_history")>> ELSE Entries(ranked, n)

-----------------------------------------------------------------------------
\* main() and get_recent_tracks().

Init ==
    /\ api_key_set \in BOOLEAN
    /\ username_set \in BOOLEAN
    /\ num_suggestions \in (0..MaxN) \cup {NUM_SUGGESTIONS}
    /\ weights = WEIGHTS
    /\ pc = "start"
    /\ page = 1
    /\ total_pages = 1
    /\ all_tracks = <<>>
    /\ listens = <<>>
    /\ ranked_songs = <<>>
    /\ output = <<>>
    /\ requested = <<>>
    /\ bodies = <<>>
    /\ reported_total = 1
    /\ failure = "none"
    /\ calls = <<>>

\* if not LASTFM_API_KEY or not LASTFM_USERNAME (line 188).
CredentialsMissing_BothOnly == ~api_key_set /\ ~username_set

CredentialsMissing == ~api_key_set \/ ~username_set

\* Lines 188-193: the error message, the hint, return.
ConfigError ==
    /\ pc = "start"
    /\ CredentialsMissing
    /\ output' = output \o <<Line("config_error"), Line("config_hint")>>
    /\ pc' = "done"
    /\ UNCHANGED <<api_key_set, username_set, num_suggestions, weights, page,
                   total_pages, all_tracks, listens, ranked_songs, requested,
                   bodies, reported_total, failure, calls>>

\* Lines 195-205 and 63-67: main calls get_recent_tracks, which sets up its loop.
StartFetch ==
    /\ pc = "start"
    /\ ~CredentialsMissing
    /\ calls' = Append(calls, "get_recent_tracks")
    /\ page' = 1
    /\ total_pages' = 1
    /\ all_tracks' = <<>>
    /\ output' = Append(output, Line("fetching"))
    /\ pc' = "fetch"
    /\ UNCHANGED <<api_key_set, username_set, num_suggestions, weights, listens,
                   ranked_songs, requested, bodies, reported_total, failure>>

\* Lines 90-91: total_pages is read from the response of page 1 alone.
NextTotalPages_EveryPage(p, current, reported) == reported

NextTotalPages(p, current, reported) == IF p = 1 THEN reported ELSE current

\* One pass of the loop with a successful response (lines 69-101); when the
\* loop condition then fails the function returns all_tracks to main.
FetchPageOk ==
    /\ pc = "fetch"
    /\ page <= total_pages
    /\ \E reported \in 0..MaxPages, body \in BoundedSeq(ApiRecords, MaxPerPage) :
          /\ requested' = Append(requested, page)
          /\ bodies' = Append(bodies, body)
          /\ total_pages' = NextTotalPages(page, total_pages, reported)
          /\ reported_total' = IF page = 1 THEN reported ELSE reported_total
          /\ output' = IF page = 1 THEN Append(output, Line("found")) ELSE output
          /\ all_tracks' = all_tracks \o body
    /\ page' = page + 1
    /\ pc' = IF page' <= total_pages' THEN "fetch" ELSE "process"
    /\ UNCHANGED <<api_key_set, username_set, num_suggestions, weights, listens,
                   ranked_songs, failure, calls>>

\* A mutation of FetchPageFail: the error is swallowed and the loop goes on.
FetchPageFail_Continue ==
    /\ pc = "fetch"
    /\ page <= total_pages
    /\ \E kind \in FailureKinds : failure' = kind
    /\ requested' = Append(requested, page)
    /\ page' = page + 1
    /\ pc' = IF page' <= total_pages THEN "fetch" ELSE "process"
    /\ UNCHANGED <<api_key_set, username_set, num_suggestions, weights,
                   total_pages, all_tracks, listens, ranked_songs, output,
                   bodies, reported_total, calls>>

\* One pass of the loop whose request fails: requests.get or raise_for_status
\* raises (lines 83-84, 103-104) or the body has an "error" field (lines
\* 87-88).  The ConnectionError leaves get_recent_tracks and main's try block;
\* main prints it (lines 225-226) and ends.
FetchPageFail ==
    /\ pc = "fetch"
    /\ page <= total_pages
    /\ \E kind \in FailureKinds : failure' = kind
    /\ requested' = Append(requested, page)
    /\ output' = Append(output, Line("error"))
    /\ pc' = "done"
    /\ UNCHANGED <<api_key_set, username_set, num_suggestions, weights, page,
                   total_pages, all_tracks, listens, ranked_songs, bodies,
                   reported_total, calls>>

\* Lines 208-209: process_scrobbles returns and the count is printed.
ProcessScrobbles ==
    /\ pc = "process"
    /\ ~process_scrobbles(all_tracks).raised
    /\ calls' = Append(calls, "process_scrobbles")
    /\ listens' = process_scrobbles(all_tracks).listens
    /\ output' = Append(output, Line("processed"))
    /\ pc' = "score"
    /\ UNCHANGED <<api_key_set, username_set, num_suggestions, weights, page,
                   total_pages, all_tracks, ranked_songs, requested, bodies,
                   reported_total, failure>>

\* Lines 208, 122 and 225-226: int() raises ValueError inside
\* process_scrobbles; main prints it and ends.
ProcessFail ==
    /\ pc = "process"
    /\ process_scrobbles(all_tracks).raised
    /\ calls' = Append(calls, "process_scrobbles")
    /\ failure' = "value_error"
    /\ output' = Append(output, Line("error"))
    /\ pc' = "done"
    /\ UNCHANGED <<api_key_set, username_set, num_suggestions, weights, page,
                   total_pages, all_tracks, listens, ranked_songs, requested,
                   bodies, reported_total>>

\* Line 212.
Score ==
    /\ pc = "score"
    /\ calls' = Append(calls, "calculate_scores")
    /\ ranked_songs' = calculate_scores(listens, weights)
    /\ pc' = "output"
    /\ UNCHANGED <<api_key_set, username_set, num_suggestions, weights, page,
                   total_pages, all_tracks, listens, output, requested, bodies,
                   reported_total, failure>>

\* Lines 215-223: the header, then the message or the ranked entries.
Output ==
    /\ pc = "output"
    /\ output' = Append(output, Line("header")) \o Listing(ranked_songs, num_suggestions)
    /\ pc' = "done"
    /\ UNCHANGED <<api_key_set, username_set, num_suggestions, weights, page,
                   total_pages, all_tracks, listens, ranked_songs, requested,
                   bodies, reported_total, failure, calls>>

Next ==
    \/ ConfigError
    \/ StartFetch
    \/ FetchPageOk
    \/ FetchPageFail
    \/ ProcessScrobbles
    \/ ProcessFail
    \/ Score
    \/ Output

Spec == Init /\ [][Next]_vars

-----------------------------------------------------------------------------
\* process_scrobbles on its own: any bounded list of raw records.

InitNorm ==
    /\ api_key_set = TRUE
    /\ username_set = TRUE
    /\ num_suggestions = NUM_SUGGESTIONS
    /\ weights = WEIGHTS
    /\ pc = "process"
    /\ page = 2
    /\ total_pages = 1
    /\ all_tracks \in BoundedSeq(RawRecords, MaxRaw)
    /\ listens = <<>>
    /\ ranked_songs = <<>>
    /\ output = <<>>
    /\ requested = <<1>>
    /\ bodies = <<all_tracks>>
    /\ reported_total = 1
    /\ failure = "none"
    /\ calls = <<"get_recent_tracks">>

NextNorm == ProcessScrobbles \/ ProcessFail

SpecNorm == InitNorm /\ [][NextNorm]_vars

-----------------------------------------------------------------------------
\* calculate_scores on its own: any bounded list of listens, several weight
\* configurations.

InitScore ==
    /\ api_key_set = TRUE
    /\ username_set = TRUE
    /\ num_suggestions = NUM_SUGGESTIONS
    /\ weights \in WeightConfigs
    /\ pc = "score"
    /\ page = 2
    /\ total_pages = 1
    /\ all_tracks = <<>>
    /\ listens \in BoundedSeq(ListenSamples, MaxListens)
    /\ ranked_songs = <<>>
    /\ output = <<>>
    /\ requested = <<1>>
    /\ bodies = <<>>
    /\ reported_total = 1
    /\ failure = "none"
    /\ calls = <<"get_recent_tracks", "process_scrobbles">>

NextScore == Score

SpecScore == InitScore /\ [][NextScore]_vars

-----------------------------------------------------------------------------
\* Phases 3 and 4 of main on their own: any bounded list of listens, the
\* shipped weights, several values of NUM_SUGGESTIONS.

InitRank ==
    /\ api_key_set = TRUE
    /\ username_set = TRUE
    /\ num_suggestions \in (0..MaxN) \cup {NUM_SUGGESTIONS}
    /\ weights = WEIGHTS
    /\ pc = "score"
    /\ page = 2
    /\ total_pages = 1
    /\ all_tracks = <<>>
    /\ listens \in BoundedSeq(ListenSamples, MaxListens)
    /\ ranked_songs = <<>>
    /\ output = <<>>
    /\ requested = <<1>>
    /\ bodies = <<>>
    /\ reported_total = 1
    /\ failure = "none"
    /\ calls = <<"get_recent_tracks", "process_scrobbles">>

NextRank == Score \/ Output

SpecRank == InitRank /\ [][NextRank]_vars

-----------------------------------------------------------------------------
\* The statistics of a track as the specification defines them, over the
\* listens of the current state.

ListensOf(a, s) ==
    {j \in DOMAIN listens : listens[j].artist = a /\ listens[j].song = s}

Frequency(a, s) == Cardinality(ListensOf(a, s))

Consistency(a, s) == Cardinality({listens[j].day : j \in ListensOf(a, s)})

ArtistTotalPlays(a) == Cardinality({j \in DOMAIN listens : listens[j].artist = a})

AlbumTotalPlays(a, b) ==
    Cardinality({j \in DOMAIN listens : listens[j].artist = a /\ listens[j].album = b})

\* The representative album of a track: the album of its earliest listen.
RepresentativeAlbum(a, s) ==
    listens[CHOOSE j \in ListensOf(a, s) : \A k \in ListensOf(a, s) : j <= k].album

TrackKeys == {<<listens[j].artist, listens[j].song>> : j \in DOMAIN listens}

FirstListen(a, s) == CHOOSE j \in ListensOf(a, s) : \A k \in ListensOf(a, s) : j <= k

Scored == pc \in {"output", "done"} /\ failure = "none"

IsEntry(l) == l.kind = "entry"

EntryLines == SelectSeq(output, IsEntry)

Called(f) == \E i \in 1..Len(calls) : calls[i] = f

-----------------------------------------------------------------------------
\* C1: the score of every track is frequency*W_FREQUENCY +
\* consistency*W_CONSISTENCY + artistTotalPlays*W_ARTIST_AFFINITY +
\* albumTotalPlays*W_ALBUM_AFFINITY, with the artist's plays counted over all
\* of its tracks and the album's plays counted for the track's representative
\* album key (scores are hundredths, weights thousandths).
C1_ScoreIsWeightedSum ==
    Scored =>
        \A i \in 1..Len(ranked_songs) :
            LET a == ranked_songs[i].artist
                s == ranked_songs[i].song
            IN  /\ ListensOf(a, s) # {}
                /\ ranked_songs[i].score * 10 =
                       Frequency(a, s) * weights.FREQUENCY
                       + Consistency(a, s) * weights.CONSISTENCY
                       + ArtistTotalPlays(a) * weights.ARTIST_AFFINITY
                       + AlbumTotalPlays(a, RepresentativeAlbum(a, s))
                             * weights.ALBUM_AFFINITY

\* A scored track played twice on one day, whose artist has three plays and
\* whose representative album has one.
C1_Witness ==
    /\ Scored
    /\ weights = WEIGHTS
    /\ \E i \in 1..Len(ranked_songs) :
          LET a == ranked_songs[i].artist
              s == ranked_songs[i].song
          IN  /\ Frequency(a, s) = 2
              /\ Consistency(a, s) = 1
              /\ ArtistTotalPlays(a) = 3
              /\ AlbumTotalPlays(a, RepresentativeAlbum(a, s)) = 1

\* C2: the result has exactly one entry for every (artist, song) pair of the
\* input and none for any other pair; an empty input gives an empty result.
C2_OneEntryPerTrack ==
    Scored =>
        /\ {<<ranked_songs[i].artist, ranked_songs[i].song>> :
                i \in 1..Len(ranked_songs)} = TrackKeys
        /\ Len(ranked_songs) = Cardinality(TrackKeys)
        /\ (listens = <<>> => ranked_songs = <<>>)

\* Three listens of two tracks have been scored.
C2_Witness ==
    /\ Scored
    /\ Len(listens) = 3
    /\ Cardinality(TrackKeys) = 2
    /\ Len(ranked_songs) = 2

\* The score calculate_scores gives a track in a result list.
ScoreIn(ranked, key) ==
    LET i == CHOOSE i \in 1..Len(ranked) : <<ranked[i].artist, ranked[i].song>> = key
    IN  ranked[i].score

Permutations(n) ==
    {f \in [1..n -> 1..n] : \A i, j \in 1..n : i # j => f[i] # f[j]}

\* C3: every permutation of the listens gives every track the same score.
C3_ScoresIgnoreOrder ==
    Scored =>
        \A f \in Permutations(Len(listens)) :
            LET permuted == [i \in 1..Len(listens) |-> listens[f[i]]]
            IN  \A key \in TrackKeys :
                    ScoreIn(calculate_scores(permuted, weights), key)
                        = ScoreIn(ranked_songs, key)

\* C4: the result is in non-increasing order of score, and entries of equal
\* score are in the order in which their tracks first occur in the input.
C4_StableDescending ==
    Scored =>
        \A i, j \in 1..Len(ranked_songs) :
            i < j =>
                /\ ranked_songs[i].score >= ranked_songs[j].score
                /\ ranked_songs[i].score = ranked_songs[j].score =>
                       FirstListen(ranked_songs[i].artist, ranked_songs[i].song)
                           < FirstListen(ranked_songs[j].artist, ranked_songs[j].song)

\* Three tracks have been scored: the one heard first has the lowest score
\* and ends last, the other two tie.
C4_Witness ==
    /\ Scored
    /\ Len(ranked_songs) = 3
    /\ ranked_songs[1].score = ranked_songs[2].score
    /\ ranked_songs[2].score > ranked_songs[3].score
    /\ FirstListen(ranked_songs[3].artist, ranked_songs[3].song) = 1

\* C5: with M distinct tracks the listing has min(M, N) entry lines: the first
\* min(M, N) entries of the sorted list, ranked 1..min(M, N) in that order.
C5_TopN ==
    (pc = "done" /\ Called("calculate_scores")) =>
        LET m == Min(Cardinality(TrackKeys), num_suggestions)
        IN  /\ Len(EntryLines) = m
            /\ \A i \in 1..m :
                  /\ EntryLines[i].rank = i
                  /\ EntryLines[i].song = ranked_songs[i].song
                  /\ EntryLines[i].artist = ranked_songs[i].artist
                  /\ EntryLines[i].score = ranked_songs[i].score

\* Three tracks and N = 2: two entries have been printed.
C5_Witness ==
    /\ pc = "done"
    /\ Cardinality(TrackKeys) = 3
    /\ num_suggestions = 2
    /\ Len(EntryLines) = 2

\* A raw record that yields a ListenEvent: not now-playing, with song name,
\* artist name, album name and timestamp.
Qualifies(r) ==
    /\ ~("@attr" \in r.keys /\ r.nowplaying = "true")
    /\ FullKeys \subseteq r.keys
    /\ r.name # "" /\ r.artist # "" /\ r.album # ""
    /\ r.uts_numeric

\* C6: process_scrobbles yields one ListenEvent, in input order, for every
\* qualifying raw record and nothing for any other; a record that does not
\* qualify never aborts the run.
C6_DropsNeverAbort ==
    (pc # "process" /\ Called("process_scrobbles")) =>
        LET kept == SelectSeq(all_tracks, Qualifies)
        IN  /\ failure = "none"
            /\ listens = [i \in 1..Len(kept) |-> ListenOf(kept[i])]

\* C7: once a page request has failed no further request is issued,
\* process_scrobbles and calculate_scores are not run and no ranked entry is
\* printed.
C7_FailedFetchEndsRun ==
    failure \in FailureKinds =>
        /\ pc = "done"
        /\ Len(requested) = Len(bodies) + 1
        /\ requested = [i \in 1..Len(requested) |-> i]
        /\ ~Called("process_scrobbles")
        /\ ~Called("calculate_scores")
        /\ listens = <<>>
        /\ ranked_songs = <<>>
        /\ EntryLines = <<>>

\* The request for page 2 failed after page 1 delivered a track.
C7_Witness ==
    /\ failure \in FailureKinds
    /\ Len(requested) = 2
    /\ all_tracks # <<>>

\* C8: when every request succeeds, pages 1..T are requested in that order,
\* once each (page 1 alone when T <= 1), T being what page 1 reported; the
\* loop then ends and returns the track entries of all pages in page order.
C8_PagesInOrder ==
    /\ (pc = "fetch" /\ failure = "none") =>
          /\ requested = [i \in 1..(page - 1) |-> i]
          /\ requested # <<>> => (page <= reported_total /\ total_pages = reported_total)
    /\ (Called("get_recent_tracks") /\ pc # "fetch" /\ failure \notin FailureKinds) =>
          /\ requested = [i \in 1..(IF reported_total <= 1 THEN 1 ELSE reported_total) |-> i]
          /\ total_pages = reported_total
          /\ Len(bodies) = Len(requested)
          /\ all_tracks = Flatten(bodies)

\* Two pages were reported, both were fetched and the fetch has returned.
C8_Witness ==
    /\ pc = "process"
    /\ reported_total = 2
    /\ requested = <<1, 2>>
    /\ Len(all_tracks) = 2

\* C9: when the fetch succeeds and process_scrobbles yields no listen, one
\* "no listening history" line is printed and no ranked entry.
C9_NoHistoryLine ==
    (pc = "done" /\ failure = "none" /\ Called("process_scrobbles") /\ listens = <<>>) =>
        /\ Cardinality({i \in 1..Len(output) : output[i].kind = "no_history"}) = 1
        /\ EntryLines = <<>>

\* The fetch delivered records, all were dropped, and the run has ended.
C9_Witness ==
    /\ pc = "done"
    /\ failure = "none"
    /\ Called("process_scrobbles")
    /\ all_tracks # <<>>
    /\ listens = <<>>

\* C10: without the API key or the username the run reports a configuration
\* error and ends: no page request, no normalisation, no scoring, no listing.
C10_ConfigErrorBeforeNetwork ==
    (~api_key_set \/ ~username_set) =>
        /\ pc \in {"start", "done"}
        /\ requested = <<>>
        /\ calls = <<>>
        /\ listens = <<>> /\ ranked_songs = <<>>
        /\ \A i \in 1..Len(output) : output[i].kind \in {"config_error", "config_hint"}
        /\ pc = "done" => (output # <<>> /\ output[1].kind = "config_error")

\* The key is set, the username is not, and the run has ended.
C10_Witness ==
    /\ pc = "done"
    /\ api_key_set
    /\ ~username_set

====
